---- MODULE Spec2Model ----
(***************************************************************************)
(* A model of camproxy: the smart fetch engine of camutil (smartFetch),    *)
(* the GET path with its sniffing response writer (respWriter), the        *)
(* modification-time resolution (parseLastModified / timeParse), the POST  *)
(* upload handler, the cache of downloaders (NewDownloader) and the        *)
(* conversions of blob references (Base64ToRef, getParanoidPath).          *)
(* Each part has its own specification over the one                        *)
(* set of variables; the variables of the other parts stay at their        *)
(* initial values.                                                         *)
(***************************************************************************)
EXTENDS Integers, Sequences, FiniteSets, TLC

VARIABLES
    \* ---- smart fetch engine (camutil.smartFetch) ----
    tree,       \* the blob tree being fetched: node -> [type, kids]
    Verbose,    \* camutil.Verbose
    st,         \* node -> position of the smartFetch call on that blob
    res,        \* node -> value returned by the call: 0 is nil, k > 0 the error raised at node k
    disk,       \* node -> what the target path of a file blob holds
    si,         \* static-set -> number of members already sent on workc
    qh,         \* static-set -> number of members already received from workc
    ci,         \* static-set -> number of errcs already received by the caller
    pool,       \* static-set -> number of worker goroutines spawned
    exited,     \* static-set -> number of worker goroutines that have left their range loop
    budget,     \* environment events (I/O errors, files found in place) still to happen
    \* ---- GET (handle, respWriter) ----
    gpc,        \* position of the GET handler
    raw,        \* query parameter raw
    mimeParam,  \* query parameter mimeType
    stream,     \* lengths of the chunks the blob reader delivers to io.Copy
    nread,      \* number of chunks io.Copy has passed to respWriter.Write
    served,     \* what Downloader.Start was asked for: "schema" or "content"
    rw,         \* the respWriter: name, okMime, headerWritten, buf
    \* ---- shared by GET and POST ----
    uw,         \* the http.ResponseWriter of the request
    mimeCache,  \* the Mime Cache: short reference -> mime type
    \* ---- modification-time resolution (parseLastModified) ----
    tpc,        \* "call" before parseLastModified runs, "done" after
    lastModHeader,  \* its first argument, a text
    mtimeHeader,    \* its second argument, a text
    lastmod,    \* the time it returned
    \* ---- POST (handle, saveMultipartTo, saveDirectTo) ----
    ppc,        \* position of the POST handler
    route,      \* "multipart" or "direct", from the Content-Type
    parts,      \* the parts of a multipart body
    pidx,       \* number of parts already read by mr.NextPart
    reqLastMod, \* the Last-Modified header of the request, a text
    reqMtime,   \* the query parameter mtime, a text
    qmtime,     \* the fallback mtime text of saveMultipartTo
    filenames,  \* the files handed to the upload step
    mimetypes,  \* their declared mime types
    ondisk,     \* temporary files: name -> [whole, mtime]
    dispatched, \* the switch on len(filenames) was reached
    tmpdir,     \* the per-request temporary directory: "none", "exists", "removed"
    uploads,    \* the arguments of the UploadFile calls made
    flagParanoid,   \* a backup root is configured
    paraSource, \* source of the paranoid copy, a file name (0: not armed)
    paraDest,   \* destination of the paranoid copy
    copies,     \* the paranoid copies attempted
    ptrace,     \* the order of the final steps of the handler
    failures,   \* the steps of the request that failed in the environment
    \* ---- the cached downloaders and clients (camutil.NewDownloader) ----
    callers,    \* goroutine -> [pc, server, down]: its call of NewDownloader
    ncalls,     \* the number of NewDownloader calls made
    cachedDownloaderMtx,    \* the goroutine holding the mutex, 0 if free
    cachedClientMtx,        \* the goroutine holding the mutex, 0 if free
    cachedDownloader,   \* server -> the cached Downloader, 0 if none
    cachedClient,       \* the servers with a cached client
    allocated,  \* the number of Downloaders made by new(Downloader)
    returned,   \* the results of the successful calls: [proc, server, down]
    stored,     \* server -> the Downloaders assigned to cachedDownloader[server]
    \* ---- blob references (camutil.Base64ToRef, getParanoidPath) ----
    rpc,        \* position: "idle", "parse", "parsed", "short", "back", "path"
    refText,    \* the text of a reference, a sequence of characters
    ref,        \* the blob.Ref parsed from it: [valid, algo, digest]
    shortText,  \* its base64 short form
    backRef,    \* the result of Base64ToRef on the short form: [err, br]
    paranoidRoot,   \* the value of the paranoid flag, a sequence of characters
    paranoidPath    \* the result of getParanoidPath

fvars == <<tree, Verbose, st, res, disk, si, qh, ci, pool, exited, budget>>
gvars == <<gpc, raw, mimeParam, stream, nread, served, rw>>
hvars == <<uw, mimeCache>>
pvars == <<ppc, route, parts, pidx, reqLastMod, reqMtime, qmtime, filenames, mimetypes,
           ondisk, dispatched, tmpdir, uploads, flagParanoid, paraSource, paraDest,
           copies, ptrace, failures>>

tvars == <<tpc, lastModHeader, mtimeHeader, lastmod>>

dvars == <<callers, ncalls, cachedDownloaderMtx, cachedClientMtx, cachedDownloader,
           cachedClient, allocated, returned, stored>>

rvars == <<rpc, refText, ref, shortText, backRef, paranoidRoot, paranoidPath>>

vars == <<fvars, gvars, hvars, tvars, pvars, dvars, rvars>>

\* the variables of the other parts, which an action of one part leaves alone
notFetch == <<gvars, hvars, tvars, pvars, dvars, rvars>>
notGet == <<fvars, tvars, pvars, dvars, rvars>>
notTime == <<fvars, gvars, hvars, pvars, dvars, rvars>>
notPost == <<fvars, gvars, tvars, dvars, rvars>>
notDown == <<fvars, gvars, hvars, tvars, pvars, rvars>>
notRef == <<fvars, gvars, hvars, tvars, pvars, dvars>>

(***************************************************************************)
(* Bounds of the model and constants of the program.                       *)
(***************************************************************************)
numWorkers == 10
MaxMembers == 11
MaxDepth == 11
MaxEvents == 2
MaxFaultyMembers == 4
MaxFaultyDepth == 3
MaxWrites == 3
MaxParts == 3
sniffLen == 1024
mtimeLen == 23
MaxCallers == 2
MaxCalls == 3
refBufLen == 64

(***************************************************************************)
(* Blob trees.  Node 1 is the blob smartFetch is first called on.          *)
(***************************************************************************)
Blob(t, k) == [type |-> t, kids |-> k]

\* a static-set of k file blobs
Flat(k) ==
    [n \in 1..(k + 1) |->
        IF n = 1 THEN Blob("static-set", [i \in 1..k |-> i + 1])
                 ELSE Blob("file", <<>>)]

\* d static-sets, each reached through a directory that is the one member of
\* the static-set above it; the innermost member is a file
Nest(d) ==
    [n \in 1..(2 * d) |->
        IF n = 2 * d THEN Blob("file", <<>>)
        ELSE IF n % 2 = 1 THEN Blob("static-set", <<n + 1>>)
        ELSE Blob("directory", <<n + 1>>)]

\* a directory of two files and a sub-directory of two files
Mixed ==
    <<Blob("directory", <<2>>),
      Blob("static-set", <<3, 4, 5>>),
      Blob("file", <<>>),
      Blob("directory", <<6>>),
      Blob("file", <<>>),
      Blob("static-set", <<7, 8>>),
      Blob("file", <<>>),
      Blob("file", <<>>)>>

\* a static-set holding a blob of an unknown schema type and an opaque blob
Odd ==
    <<Blob("static-set", <<2, 3, 4>>),
      Blob("file", <<>>),
      Blob("unknown", <<>>),
      Blob("opaque", <<>>)>>

Trees ==
    {Flat(k) : k \in 0..MaxMembers} \cup {Nest(d) : d \in 1..MaxDepth} \cup {Mixed, Odd}

\* the trees on which I/O errors and files found in place are explored
FaultyTrees ==
    {Flat(k) : k \in 0..MaxFaultyMembers} \cup {Nest(d) : d \in 1..MaxFaultyDepth}
        \cup {Mixed, Odd}

Nodes == DOMAIN tree
Sets == {n \in Nodes : tree[n].type = "static-set"}
Files == {n \in Nodes : tree[n].type = "file"}
Members(s) == tree[s].kids
NumMembers(s) == Len(tree[s].kids)
MemberNodes == {n \in Nodes : \E s \in Sets : \E i \in 1..NumMembers(s) : Members(s)[i] = n}

\* a call that has started and not yet returned
Executing(n) == st[n] \in {"running", "inset", "waitdir"}

\* members of s a worker of s is fetching now
Busy(s) == Cardinality({i \in 1..NumMembers(s) : Executing(Members(s)[i])})

\* workers of s blocked in "for wi := range workc"
Idle(s) == pool[s] - exited[s] - Busy(s)

\* a text: its layout, the instant it denotes (Unix seconds), its length
Text(l, a, n) == [layout |-> l, at |-> a, len |-> n]
Empty == Text("empty", 0, 0)

\* a time.Time: the zero time or a Unix time
ZeroTime == [isZero |-> TRUE, unix |-> 0]
Unix(a) == [isZero |-> FALSE, unix |-> a]

\* parseLastModified is not running
TimeIdle ==
    /\ tpc = "idle"
    /\ lastModHeader = Empty
    /\ mtimeHeader = Empty
    /\ lastmod = ZeroTime

\* the GET handler is not running
GetIdle ==
    /\ gpc = "idle"
    /\ raw = ""
    /\ mimeParam = ""
    /\ stream = <<>>
    /\ nread = 0
    /\ served = "none"
    /\ rw = [name |-> "", okMime |-> "", headerWritten |-> FALSE, buf |-> <<>>]

\* no request is being answered
HttpIdle ==
    /\ uw = [hdr |-> <<>>, calls |-> <<>>, status |-> 0, sentType |-> "", body |-> <<>>]
    /\ mimeCache = [k \in {"ref"} |-> ""]

\* the goroutines that call NewDownloader, and the servers they name
Callers == 1..MaxCallers
Servers == {"", "localhost:3179"}

\* the zero blob.Ref
ZeroRef == [valid |-> FALSE, algo |-> "", digest |-> <<>>]

\* no reference is being converted
RefIdle ==
    /\ rpc = "idle"
    /\ refText = <<>>
    /\ ref = ZeroRef
    /\ shortText = <<>>
    /\ backRef = [err |-> "", br |-> ZeroRef]
    /\ paranoidRoot = <<>>
    /\ paranoidPath = <<>>

\* no call of NewDownloader was made
DownIdle ==
    /\ callers = [p \in Callers |-> [pc |-> "idle", server |-> "", down |-> 0]]
    /\ ncalls = 0
    /\ cachedDownloaderMtx = 0
    /\ cachedClientMtx = 0
    /\ cachedDownloader = [a \in Servers |-> 0]
    /\ cachedClient = {}
    /\ allocated = 0
    /\ returned = {}
    /\ stored = [a \in Servers |-> <<>>]

\* the POST handler is not running
PostIdle ==
    /\ ppc = "idle"
    /\ route = "direct"
    /\ parts = <<>>
    /\ pidx = 0
    /\ reqLastMod = Empty
    /\ reqMtime = Empty
    /\ qmtime = Empty
    /\ filenames = <<>>
    /\ mimetypes = <<>>
    /\ ondisk = {}
    /\ dispatched = FALSE
    /\ tmpdir = "none"
    /\ uploads = <<>>
    /\ flagParanoid = FALSE
    /\ paraSource = 0
    /\ paraDest = ""
    /\ copies = <<>>
    /\ ptrace = <<>>
    /\ failures = {}

\* smartFetch is not running
FetchIdle ==
    /\ tree = <<>>
    /\ Verbose = FALSE
    /\ st = <<>>
    /\ res = <<>>
    /\ disk = <<>>
    /\ si = <<>>
    /\ qh = <<>>
    /\ ci = <<>>
    /\ pool = <<>>
    /\ exited = <<>>
    /\ budget = 0

InitFetch ==
    /\ GetIdle
    /\ HttpIdle
    /\ TimeIdle
    /\ PostIdle
    /\ DownIdle
    /\ RefIdle
    /\ \/ tree \in FaultyTrees /\ budget \in 0..MaxEvents
       \/ tree \in Trees /\ budget = 0
    /\ Verbose \in BOOLEAN
    /\ st = [n \in DOMAIN tree |-> IF n = 1 THEN "running" ELSE "idle"]
    /\ res = [n \in DOMAIN tree |-> 0]
    /\ disk = [n \in DOMAIN tree |-> "untouched"]
    /\ si = [n \in DOMAIN tree |-> 0]
    /\ qh = [n \in DOMAIN tree |-> 0]
    /\ ci = [n \in DOMAIN tree |-> 0]
    /\ pool = [n \in DOMAIN tree |-> 0]
    /\ exited = [n \in DOMAIN tree |-> 0]

\* "return v" of the call on n
Return(n, v) ==
    /\ st' = [st EXCEPT ![n] = "returned"]
    /\ res' = [res EXCEPT ![n] = v]

\* fetch(src, br) or the copy into the sniffer fails
FetchFail(n) ==
    /\ st[n] = "running"
    /\ budget > 0
    /\ budget' = budget - 1
    /\ Return(n, n)
    /\ UNCHANGED <<tree, Verbose, disk, si, qh, ci, pool, exited>>
    /\ UNCHANGED notFetch

\* "if fi, err := os.Stat(name); err == nil && fi.Size() == fi.Size()" with
\* the return inside "if Verbose": what becomes of the file that was found
SkipExisting(verbose, found) ==
    IF verbose
    THEN (IF found = "same_size" THEN "kept_same_size" ELSE "kept_other_size")
    ELSE (IF found = "same_size" THEN "rewrote_same_size" ELSE "rewrote_other_size")

\* case "file"
ResolveFile(n) ==
    /\ st[n] = "running"
    /\ tree[n].type = "file"
    /\ \/ \* schema.NewFileReader or os.Create fails
          /\ budget > 0
          /\ budget' = budget - 1
          /\ Return(n, n)
          /\ UNCHANGED disk
       \/ \* os.Stat finds a file at the target path: fi.Size() == fi.Size()
          \* holds for a file of any size; it is kept only if Verbose, and
          \* otherwise created again and copied over
          /\ budget > 0
          /\ budget' = budget - 1
          /\ \E found \in {"same_size", "other_size"} :
                disk' = [disk EXCEPT ![n] = SkipExisting(Verbose, found)]
          /\ Return(n, 0)
       \/ \* io.Copy fails
          /\ budget > 0
          /\ budget' = budget - 1
          /\ disk' = [disk EXCEPT ![n] = "partial"]
          /\ Return(n, n)
       \/ \* created and copied
          /\ disk' = [disk EXCEPT ![n] = "written"]
          /\ Return(n, 0)
          /\ UNCHANGED budget
    /\ UNCHANGED <<tree, Verbose, si, qh, ci, pool, exited>>
    /\ UNCHANGED notFetch

\* case "directory"
ResolveDir(n) ==
    /\ st[n] = "running"
    /\ tree[n].type = "directory"
    /\ \/ \* os.MkdirAll fails, or the blob has no entries reference
          /\ budget > 0
          /\ budget' = budget - 1
          /\ Return(n, n)
       \/ \* return smartFetch(src, dir, entries)
          /\ st' = [st EXCEPT ![n] = "waitdir", ![tree[n].kids[1]] = "running"]
          /\ UNCHANGED <<res, budget>>
    /\ UNCHANGED <<tree, Verbose, disk, si, qh, ci, pool, exited>>
    /\ UNCHANGED notFetch

\* the recursive call of a directory has returned
DirReturn(n) ==
    /\ st[n] = "waitdir"
    /\ st[tree[n].kids[1]] = "returned"
    /\ Return(n, res[tree[n].kids[1]])
    /\ UNCHANGED <<tree, Verbose, disk, si, qh, ci, pool, exited, budget>>
    /\ UNCHANGED notFetch

\* case "static-set": make(chan work, len(members)) and the numWorkers goroutines
ResolveSet(n) ==
    /\ st[n] = "running"
    /\ tree[n].type = "static-set"
    /\ st' = [st EXCEPT ![n] = "inset"]
    /\ pool' = [pool EXCEPT ![n] = numWorkers]
    /\ UNCHANGED <<tree, Verbose, res, disk, si, qh, ci, exited, budget>>
    /\ UNCHANGED notFetch

\* workc <- work{mref, errc}; the send blocks while the channel is full
Submit(s) ==
    /\ st[s] = "inset"
    /\ si[s] < NumMembers(s)
    /\ si[s] - qh[s] < NumMembers(s)
    /\ st' = [st EXCEPT ![Members(s)[si[s] + 1]] = "queued"]
    /\ si' = [si EXCEPT ![s] = si[s] + 1]
    /\ UNCHANGED <<tree, Verbose, res, disk, qh, ci, pool, exited, budget>>
    /\ UNCHANGED notFetch

\* a worker receives the next work item and calls smartFetch on it
DequeueChecked(s) ==
    /\ Idle(s) > 0
    /\ qh[s] < si[s]
    /\ st' = [st EXCEPT ![Members(s)[qh[s] + 1]] = "running"]
    /\ qh' = [qh EXCEPT ![s] = qh[s] + 1]
    /\ UNCHANGED <<tree, Verbose, res, disk, si, ci, pool, exited, budget>>
    /\ UNCHANGED notFetch

\* a worker pool that starts a fetch for every queued member, idle worker or not
DequeueUnbounded(s) ==
    /\ pool[s] > 0
    /\ qh[s] < si[s]
    /\ st' = [st EXCEPT ![Members(s)[qh[s] + 1]] = "running"]
    /\ qh' = [qh EXCEPT ![s] = qh[s] + 1]
    /\ UNCHANGED <<tree, Verbose, res, disk, si, ci, pool, exited, budget>>
    /\ UNCHANGED notFetch

Dequeue(s) == DequeueChecked(s)

\* "if err := <-errc; err != nil { return err }" and the final "return nil"
CollectInOrder(s) ==
    /\ st[s] = "inset"
    /\ si[s] = NumMembers(s)
    /\ IF ci[s] = NumMembers(s)
       THEN /\ Return(s, 0)
            /\ UNCHANGED ci
       ELSE /\ st[Members(s)[ci[s] + 1]] = "returned"
            /\ IF res[Members(s)[ci[s] + 1]] = 0
               THEN /\ ci' = [ci EXCEPT ![s] = ci[s] + 1]
                    /\ UNCHANGED <<st, res>>
               ELSE /\ Return(s, res[Members(s)[ci[s] + 1]])
                    /\ UNCHANGED ci
    /\ UNCHANGED <<tree, Verbose, disk, si, qh, pool, exited, budget>>
    /\ UNCHANGED notFetch

\* a collection loop that takes the results as they arrive
CollectAsCompleted(s) ==
    /\ st[s] = "inset"
    /\ si[s] = NumMembers(s)
    /\ \/ \E i \in 1..NumMembers(s) :
             /\ st[Members(s)[i]] = "returned"
             /\ res[Members(s)[i]] # 0
             /\ Return(s, res[Members(s)[i]])
       \/ /\ \A i \in 1..NumMembers(s) :
                st[Members(s)[i]] = "returned" /\ res[Members(s)[i]] = 0
          /\ Return(s, 0)
    /\ UNCHANGED <<tree, Verbose, disk, si, qh, ci, pool, exited, budget>>
    /\ UNCHANGED notFetch

Collect(s) == CollectInOrder(s)

\* workc is closed on the "return nil" path only
WorkerExitOnSuccess(s) ==
    /\ st[s] = "returned"
    /\ res[s] = 0
    /\ qh[s] = si[s]
    /\ Idle(s) > 0
    /\ exited' = [exited EXCEPT ![s] = exited[s] + Idle(s)]
    /\ UNCHANGED <<tree, Verbose, st, res, disk, si, qh, ci, pool, budget>>
    /\ UNCHANGED notFetch

\* workc is closed (deferred) and drained: the range loops of the workers that
\* are waiting on it end (the waiting workers of one set leave in one step)
WorkerExit(s) ==
    /\ st[s] = "returned"
    /\ qh[s] = si[s]
    /\ Idle(s) > 0
    /\ exited' = [exited EXCEPT ![s] = exited[s] + Idle(s)]
    /\ UNCHANGED <<tree, Verbose, st, res, disk, si, qh, ci, pool, budget>>
    /\ UNCHANGED notFetch

\* default: unknown blob type
ResolveUnknown(n) ==
    /\ st[n] = "running"
    /\ tree[n].type = "unknown"
    /\ Return(n, n)
    /\ UNCHANGED <<tree, Verbose, disk, si, qh, ci, pool, exited, budget>>
    /\ UNCHANGED notFetch

\* not a schema blob: the bytes are written to the target path itself
ResolveOpaque(n) ==
    /\ st[n] = "running"
    /\ tree[n].type = "opaque"
    /\ \/ /\ budget > 0
          /\ budget' = budget - 1
          /\ Return(n, n)
          /\ UNCHANGED disk
       \/ /\ disk' = [disk EXCEPT ![n] = "written"]
          /\ Return(n, 0)
          /\ UNCHANGED budget
    /\ UNCHANGED <<tree, Verbose, si, qh, ci, pool, exited>>
    /\ UNCHANGED notFetch

NextFetch ==
    \/ \E n \in Nodes : FetchFail(n)
    \/ \E n \in Nodes : ResolveFile(n)
    \/ \E n \in Nodes : ResolveDir(n)
    \/ \E n \in Nodes : DirReturn(n)
    \/ \E n \in Nodes : ResolveSet(n)
    \/ \E n \in Nodes : ResolveUnknown(n)
    \/ \E n \in Nodes : ResolveOpaque(n)
    \/ \E s \in Sets : Submit(s)
    \/ \E s \in Sets : Dequeue(s)
    \/ \E s \in Sets : Collect(s)
    \/ \E s \in Sets : WorkerExit(s)

SpecFetch == InitFetch /\ [][NextFetch]_vars

\* a goroutine that can take a step eventually takes one
SpecFetchLive == SpecFetch /\ WF_vars(NextFetch)

(***************************************************************************)
(* GET: handle and respWriter (main.go).  A byte string is a sequence of   *)
(* chunk numbers: chunk i is the i-th chunk the blob reader delivers, of   *)
(* stream[i] bytes; chunk 0 is the text http.Error writes.                 *)
(***************************************************************************)
ChunkSizes == {1, 511, 512, 1024}
Streams == UNION {[1..n -> ChunkSizes] : n \in 0..MaxWrites}
CacheValues == {"", "text/plain", "application/octet-stream"}

RECURSIVE NumBytes(_)
\* len(p) of a byte string
NumBytes(p) == IF p = <<>> THEN 0 ELSE stream[Head(p)] + NumBytes(Tail(p))

\* content := r.URL.Query().Get("raw") != "1"
WantContentInverted(r) == r = "1"

WantContent(r) == r # "1"

\* Downloader.Start: the file content if contents, else the schema blob
StartKind(contents) == IF contents THEN "content" ELSE "schema"

\* http.ResponseWriter.WriteHeader: the first call sends the header
UWriteHeader(w, code) ==
    [w EXCEPT !.calls = Append(@, code),
              !.status = IF @ = 0 THEN code ELSE @,
              !.sentType = IF w.status = 0
                           THEN (IF w.hdr = <<>> THEN "" ELSE w.hdr[1])
                           ELSE @]

\* http.ResponseWriter.Write: calls WriteHeader(200) if no header was written
UWrite(w, p) ==
    LET w1 == IF w.status = 0 THEN UWriteHeader(w, 200) ELSE w
    IN  [w1 EXCEPT !.body = @ \o p]

\* http.Error(w, msg, code)
HttpError(w, code) ==
    UWrite(UWriteHeader([w EXCEPT !.hdr = <<"text/plain; charset=utf-8">>], code), <<0>>)

InitGet ==
    /\ FetchIdle
    /\ TimeIdle
    /\ PostIdle
    /\ DownIdle
    /\ RefIdle
    /\ gpc = "start"
    /\ raw \in {"", "1"}
    /\ mimeParam \in {"", "text/html"}
    /\ stream \in Streams
    /\ nread = 0
    /\ served = "none"
    /\ rw = [name |-> "", okMime |-> "", headerWritten |-> FALSE, buf |-> <<>>]
    /\ uw = [hdr |-> <<>>, calls |-> <<>>, status |-> 0, sentType |-> "", body |-> <<>>]
    /\ mimeCache \in [{"ref"} -> CacheValues]

\* a bad reference (400), no downloader or a failed Start (500)
GetReject ==
    /\ gpc = "start"
    /\ \E code \in {400, 500} : uw' = HttpError(uw, code)
    /\ gpc' = "done"
    /\ UNCHANGED <<raw, mimeParam, stream, nread, served, rw, mimeCache>>
    /\ UNCHANGED notGet

\* from the query parameters to newRespWriter
GetPrepare ==
    /\ gpc = "start"
    /\ \E sniffed \in {"", "image/png"} :
          LET content == WantContent(raw)
              nm == IF content /\ mimeParam = "" THEN "ref" ELSE ""
              m0 == IF ~content THEN "application/json"
                    ELSE IF mimeParam # "" THEN mimeParam
                    ELSE mimeCache["ref"]
              \* magic.MIMETypeFromReader
              m1 == IF m0 = "" THEN sniffed ELSE m0
              \* newRespWriter
              m2 == IF nm # "" /\ (m1 = "" \/ m1 = "application/octet-stream")
                          /\ mimeCache[nm] # ""
                    THEN mimeCache[nm] ELSE m1
          IN  /\ served' = StartKind(content)
              /\ rw' = [name |-> nm, okMime |-> m2, headerWritten |-> FALSE, buf |-> <<>>]
    /\ gpc' = "copy"
    /\ UNCHANGED <<raw, mimeParam, stream, nread, uw, mimeCache>>
    /\ UNCHANGED notGet

\* the buffer is kept until it holds more than 1024 bytes
KeepSniffingThrough(n) == n <= sniffLen

\* if len(w.buf) < 1024 { return len(p), nil }
KeepSniffing(n) == n < sniffLen

\* respWriter.Write(p), p the next chunk of the reader
RespWrite ==
    /\ gpc = "copy"
    /\ nread < Len(stream)
    /\ nread' = nread + 1
    /\ LET p == <<nread + 1>>
           buffering == ~rw.headerWritten
                        /\ (rw.okMime = "" \/ rw.okMime = "application/octet-stream")
           buf1 == rw.buf \o p
       IN  IF rw.headerWritten
           THEN /\ uw' = UWrite(uw, p)
                /\ UNCHANGED <<rw, mimeCache>>
           ELSE IF buffering /\ KeepSniffing(NumBytes(buf1))
           THEN /\ rw' = [rw EXCEPT !.buf = buf1]
                /\ UNCHANGED <<uw, mimeCache>>
           ELSE \E matched \in {rw.okMime, "image/png"} :
                   LET m == IF buffering THEN matched ELSE rw.okMime
                       q == IF buffering THEN buf1 ELSE p
                       h == IF m # "" THEN [uw EXCEPT !.hdr = Append(@, m)] ELSE uw
                   IN  /\ mimeCache' = IF buffering /\ rw.name # "" /\ m # ""
                                       THEN [mimeCache EXCEPT ![rw.name] = m]
                                       ELSE mimeCache
                       /\ rw' = [rw EXCEPT !.okMime = m, !.headerWritten = TRUE,
                                           !.buf = IF buffering THEN <<>> ELSE @]
                       /\ uw' = UWrite(UWriteHeader(h, 200), q)
    /\ UNCHANGED <<gpc, raw, mimeParam, stream, served>>
    /\ UNCHANGED notGet

\* io.Copy returns an error: http.Error(w, ..., 500), then the deferred Close
CopyFail ==
    /\ gpc = "copy"
    /\ uw' = HttpError(uw, 500)
    /\ gpc' = "closing"
    /\ UNCHANGED <<raw, mimeParam, stream, nread, served, rw, mimeCache>>
    /\ UNCHANGED notGet

\* io.Copy reaches the end of the reader
CopyEnd ==
    /\ gpc = "copy"
    /\ nread = Len(stream)
    /\ gpc' = "closing"
    /\ UNCHANGED <<raw, mimeParam, stream, nread, served, rw, uw, mimeCache>>
    /\ UNCHANGED notGet

\* a Close that forgets the buffered bytes
RespCloseNoFlush ==
    /\ gpc = "closing"
    /\ gpc' = "done"
    /\ UNCHANGED <<raw, mimeParam, stream, nread, served, rw, uw, mimeCache>>
    /\ UNCHANGED notGet

\* respWriter.Close (deferred)
RespClose ==
    /\ gpc = "closing"
    /\ uw' = IF rw.buf # <<>> THEN UWrite(uw, rw.buf) ELSE uw
    /\ gpc' = "done"
    /\ UNCHANGED <<raw, mimeParam, stream, nread, served, rw, mimeCache>>
    /\ UNCHANGED notGet

NextGet ==
    \/ GetReject
    \/ GetPrepare
    \/ RespWrite
    \/ CopyFail
    \/ CopyEnd
    \/ RespClose

SpecGet == InitGet /\ [][NextGet]_vars

(***************************************************************************)
(* Modification-time resolution: parseLastModified and timeParse           *)
(* (main.go).  A text is its layout, the instant it denotes (Unix seconds) *)
(* and its length in bytes; a time is the zero time.Time or a Unix time.   *)
(***************************************************************************)
Instants == {1000, 2000}

Texts ==
    {Empty}
        \cup {Text("RFC1123", a, 29) : a \in Instants}     \* Mon, 02 Jan 2006 15:04:05 MST
        \cup {Text("UnixDate", a, 28) : a \in Instants}    \* Mon Jan  2 15:04:05 MST 2006
        \cup {Text("RFC3339", a, 20) : a \in Instants}     \* 2006-01-02T15:04:05Z
        \cup {Text("RFC3339", a, 25) : a \in Instants}     \* 2006-01-02T15:04:05+01:00
        \cup {Text("decimal", a, 4) : a \in Instants}      \* 1000
        \cup {Text("decimal", 0, 23)}                      \* 23 digits
        \cup {Text("garbage", 0, 7), Text("garbage", 0, 30)}


\* time.Parse(pattern, text)
TimeLayouts == <<"RFC1123", "UnixDate", "RFC3339">>
ParsesAsTime(text) == \E i \in 1..Len(TimeLayouts) : text.layout = TimeLayouts[i]

\* timeParse: ok is declared and never assigned, so "return t, ok" returns false
timeParse(text) ==
    LET ok == FALSE
    IN  IF ParsesAsTime(text)
        THEN [t |-> Unix(text.at), ok |-> ok]
        ELSE [t |-> ZeroTime, ok |-> FALSE]

\* strconv.ParseInt(text, 10, 64) succeeds
ParsesAsInt(text) == text.layout = "decimal" /\ text.len < 20

parseLastModified(h, m) ==
    LET hp == timeParse(h)
        \* lastmod after the header was looked at
        lm1 == IF h # Empty THEN hp.t ELSE ZeroTime
        mp == timeParse(m)
    IN  IF h # Empty /\ hp.ok THEN hp.t
        ELSE IF m = Empty THEN lm1
        ELSE IF m.len >= mtimeLen THEN mp.t
        ELSE IF ParsesAsInt(m) THEN Unix(m.at)
        ELSE lm1

InitTime ==
    /\ FetchIdle
    /\ GetIdle
    /\ HttpIdle
    /\ PostIdle
    /\ DownIdle
    /\ RefIdle
    /\ tpc = "call"
    /\ lastModHeader \in Texts
    /\ mtimeHeader \in Texts
    /\ lastmod = ZeroTime

ResolveTime ==
    /\ tpc = "call"
    /\ lastmod' = parseLastModified(lastModHeader, mtimeHeader)
    /\ tpc' = "done"
    /\ UNCHANGED <<lastModHeader, mtimeHeader>>
    /\ UNCHANGED notTime

NextTime == ResolveTime

SpecTime == InitTime /\ [][NextTime]_vars

(***************************************************************************)
(* POST: handle, saveMultipartTo and saveDirectTo (main.go).  A temporary  *)
(* file is named by the number of the part it comes from (1 for a direct   *)
(* upload).  The body of the 201 response is a sequence of lines: 10 the   *)
(* content reference, 11 its short form, 20 the permanode reference, 21    *)
(* its short form.                                                         *)
(***************************************************************************)
Part(k, m, l, v) == [kind |-> k, mime |-> m, lm |-> l, value |-> v]

PartChoices ==
    {Part("file", "", Empty, Empty),
     Part("file", "text/plain", Text("RFC1123", 1000, 29), Empty),
     Part("mtime", "", Empty, Text("RFC3339", 2000, 23)),
     Part("field", "", Empty, Empty)}

Bodies == UNION {[1..n -> PartChoices] : n \in 0..MaxParts}

\* b := bytes.NewBuffer(make([]byte, 23)); io.CopyN(b, part, 23); b.String():
\* the 23 zero bytes the buffer starts with, then the bytes of the part
InlineMtime(v) ==
    Text("garbage", 0, mtimeLen + (IF v.len < mtimeLen THEN v.len ELSE mtimeLen))

\* switch len(filenames)
SwitchWithoutZeroCase(n) == IF n = 1 THEN "file" ELSE "dir"

SwitchOnFiles(n) == IF n = 0 THEN "nofiles" ELSE IF n = 1 THEN "file" ELSE "dir"

\* the temporary directory is uploaded whatever the number of files
UploadTargetAlwaysDir(what, names) == [kind |-> "dir", name |-> 0]

\* case 1: u.UploadFile(filenames[0], permanode); default: u.UploadFile(dn, permanode)
UploadTarget(what, names) ==
    IF what = "file" THEN [kind |-> "file", name |-> names[1]]
    ELSE [kind |-> "dir", name |-> 0]

\* the mime type of the first file is stored whatever the number of files
StoreMimeOfFirst(names, types) == Len(types) >= 1 /\ types[1] # ""

\* "if len(filenames) == 1" and "if len(mimetypes) == 1 && mimetypes[0] != """
StoreMime(names, types) == Len(names) = 1 /\ Len(types) = 1 /\ types[1] # ""

\* a paranoid copy armed for every successful upload
ArmParanoidAnyCount(n, root) == root

\* "if len(filenames) == 1" and "if *flagParanoid != """
ArmParanoid(n, root) == n = 1 /\ root

TempFile(n, w, t) == [name |-> n, whole |-> w, mtime |-> t]

InitPost ==
    /\ FetchIdle
    /\ GetIdle
    /\ TimeIdle
    /\ DownIdle
    /\ RefIdle
    /\ uw = [hdr |-> <<>>, calls |-> <<>>, status |-> 0, sentType |-> "", body |-> <<>>]
    /\ mimeCache \in [{"ref"} -> {"", "image/png"}]
    /\ ppc = "start"
    /\ \/ route = "multipart" /\ parts \in Bodies
       \/ route = "direct" /\ parts = <<>>
    /\ pidx = 0
    /\ reqLastMod \in {Empty, Text("RFC1123", 1000, 29)}
    /\ reqMtime \in {Empty, Text("decimal", 2000, 4)}
    /\ qmtime = Empty
    /\ filenames = <<>>
    /\ mimetypes = <<>>
    /\ ondisk = {}
    /\ dispatched = FALSE
    /\ tmpdir = "none"
    /\ uploads = <<>>
    /\ flagParanoid \in BOOLEAN
    /\ paraSource = 0
    /\ paraDest = ""
    /\ copies = <<>>
    /\ ptrace = <<>>
    /\ failures = {}

\* ioutil.TempDir and the registration of the deferred cleanup
PostTempDir ==
    /\ ppc = "start"
    /\ \/ /\ uw' = HttpError(uw, 500)
          /\ ppc' = "done"
          /\ failures' = failures \cup {"tempdir"}
          /\ UNCHANGED tmpdir
       \/ /\ tmpdir' = "exists"
          /\ ppc' = IF route = "multipart" THEN "reader" ELSE "direct"
          /\ UNCHANGED <<uw, failures>>
    /\ UNCHANGED <<route, parts, pidx, reqLastMod, reqMtime, qmtime, filenames, mimetypes,
                   ondisk, dispatched, uploads, flagParanoid, paraSource, paraDest,
                   copies, ptrace, mimeCache>>
    /\ UNCHANGED notPost

\* an early return that runs no deferred function
PostReaderFailNoCleanup ==
    /\ ppc = "reader"
    /\ uw' = HttpError(uw, 400)
    /\ ppc' = "done"
    /\ failures' = failures \cup {"reader"}
    /\ UNCHANGED <<route, parts, pidx, reqLastMod, reqMtime, qmtime, filenames, mimetypes,
                   ondisk, dispatched, tmpdir, uploads, flagParanoid, paraSource,
                   paraDest, copies, ptrace, mimeCache>>
    /\ UNCHANGED notPost

\* r.MultipartReader() fails
PostReaderFail ==
    /\ ppc = "reader"
    /\ uw' = HttpError(uw, 400)
    /\ ppc' = "deferred"
    /\ failures' = failures \cup {"reader"}
    /\ UNCHANGED <<route, parts, pidx, reqLastMod, reqMtime, qmtime, filenames, mimetypes,
                   ondisk, dispatched, tmpdir, uploads, flagParanoid, paraSource,
                   paraDest, copies, ptrace, mimeCache>>
    /\ UNCHANGED notPost

\* qmtime := r.URL.Query().Get("mtime"), else the Last-Modified header
PostReaderOk ==
    /\ ppc = "reader"
    /\ qmtime' = IF reqMtime = Empty THEN reqLastMod ELSE reqMtime
    /\ ppc' = "parts"
    /\ UNCHANGED <<route, parts, pidx, reqLastMod, reqMtime, filenames, mimetypes,
                   ondisk, dispatched, tmpdir, uploads, flagParanoid, paraSource,
                   paraDest, copies, ptrace, uw, mimeCache, failures>>
    /\ UNCHANGED notPost

\* one iteration of the loop of saveMultipartTo
SaveMultipartPart ==
    /\ ppc = "parts"
    /\ pidx < Len(parts)
    /\ pidx' = pidx + 1
    /\ LET part == parts[pidx + 1]
           name == pidx + 1
       IN  IF part.kind = "mtime"
           THEN \* io.CopyN ends with nil or io.EOF, or with another error
                /\ \E read \in BOOLEAN :
                      /\ qmtime' = IF read THEN InlineMtime(part.value) ELSE qmtime
                      /\ failures' = IF read THEN failures ELSE failures \cup {"mtimeread"}
                /\ UNCHANGED <<ppc, filenames, mimetypes, ondisk>>
           ELSE IF part.kind = "field"
           THEN UNCHANGED <<ppc, qmtime, filenames, mimetypes, ondisk, failures>>
           ELSE \/ \* os.Create fails: return nil, nil, err (the err handle
                   \* assigns is the one declared by "mr, err :=")
                   /\ filenames' = <<>>
                   /\ mimetypes' = <<>>
                   /\ ppc' = "dispatch"
                   /\ failures' = failures \cup {"create"}
                   /\ UNCHANGED <<qmtime, ondisk>>
                \/ \* io.Copy fails: return nil, nil, err
                   /\ filenames' = <<>>
                   /\ mimetypes' = <<>>
                   /\ ondisk' = ondisk \cup {TempFile(name, FALSE, ZeroTime)}
                   /\ ppc' = "dispatch"
                   /\ failures' = failures \cup {"copy"}
                   /\ UNCHANGED qmtime
                \/ \* the part is saved; os.Chtimes may fail, which is logged
                   /\ filenames' = Append(filenames, name)
                   /\ mimetypes' = Append(mimetypes, part.mime)
                   /\ \E chtimes \in BOOLEAN :
                         LET t == parseLastModified(part.lm, qmtime)
                             \* os.Chtimes is called and fails
                             bad == ~t.isZero /\ ~chtimes
                         IN  /\ ondisk' = ondisk \cup
                                    {TempFile(name, TRUE, IF bad THEN ZeroTime ELSE t)}
                             /\ failures' = IF bad THEN failures \cup {"chtimes"}
                                            ELSE failures
                   /\ UNCHANGED <<ppc, qmtime>>
    /\ UNCHANGED <<route, parts, reqLastMod, reqMtime, dispatched, tmpdir, uploads,
                   flagParanoid, paraSource, paraDest, copies, ptrace, uw, mimeCache>>
    /\ UNCHANGED notPost

\* mr.NextPart returns io.EOF or an error: the loop ends, err stays nil
SaveMultipartEnd ==
    /\ ppc = "parts"
    /\ ppc' = "dispatch"
    /\ UNCHANGED <<route, parts, pidx, reqLastMod, reqMtime, qmtime, filenames, mimetypes,
                   ondisk, dispatched, tmpdir, uploads, flagParanoid, paraSource,
                   paraDest, copies, ptrace, uw, mimeCache, failures>>
    /\ UNCHANGED notPost

\* saveDirectTo and the "if err != nil" that follows it in handle
SaveDirect ==
    /\ ppc = "direct"
    /\ \/ \* ioutil.TempFile or os.Create fails
          /\ uw' = HttpError(uw, 500)
          /\ ppc' = "deferred"
          /\ failures' = failures \cup {"create"}
          /\ UNCHANGED <<filenames, mimetypes, ondisk>>
       \/ \E copied \in BOOLEAN, chtimes \in BOOLEAN, mime \in {"", "text/plain"} :
             LET t == parseLastModified(reqLastMod, reqMtime)
                 \* err as returned: of io.Copy, overwritten by that of os.Chtimes
                 failed == IF t.isZero THEN ~copied ELSE ~chtimes
             IN  /\ ondisk' = {TempFile(1, copied,
                                        IF ~t.isZero /\ chtimes THEN t ELSE ZeroTime)}
                 /\ failures' = failures
                        \cup (IF copied THEN {} ELSE {"copy"})
                        \cup (IF ~t.isZero /\ ~chtimes THEN {"chtimes"} ELSE {})
                 /\ filenames' = <<1>>
                 /\ mimetypes' = <<mime>>
                 /\ IF failed
                    THEN uw' = HttpError(uw, 500) /\ ppc' = "deferred"
                    ELSE UNCHANGED uw /\ ppc' = "dispatch"
    /\ UNCHANGED <<route, parts, pidx, reqLastMod, reqMtime, qmtime, dispatched, tmpdir,
                   uploads, flagParanoid, paraSource, paraDest, copies, ptrace, mimeCache>>
    /\ UNCHANGED notPost

\* from "switch len(filenames)" to the 201 response
PostDispatch ==
    /\ ppc = "dispatch"
    /\ dispatched' = TRUE
    /\ ppc' = "deferred"
    /\ LET what == SwitchOnFiles(Len(filenames))
           target == UploadTarget(what, filenames)
       IN  IF what = "nofiles"
           THEN /\ uw' = HttpError(uw, 400)
                /\ UNCHANGED <<uploads, mimeCache, paraSource, paraDest, ptrace, failures>>
           ELSE /\ uploads' = Append(uploads, target)
                /\ \/ \* u.UploadFile fails
                      /\ uw' = HttpError(uw, 500)
                      /\ failures' = failures \cup {"upload"}
                      /\ UNCHANGED <<mimeCache, paraSource, paraDest, ptrace>>
                   \/ \E permanode \in BOOLEAN, short \in BOOLEAN :
                         LET one == Len(filenames) = 1
                             armed == ArmParanoid(Len(filenames), flagParanoid)
                             body == <<IF short THEN 11 ELSE 10>> \o
                                     (IF permanode THEN <<IF short THEN 21 ELSE 20>>
                                      ELSE <<>>)
                         IN  /\ mimeCache' =
                                   IF StoreMime(filenames, mimetypes)
                                   THEN [mimeCache EXCEPT !["ref"] = mimetypes[1]]
                                   ELSE mimeCache
                             /\ paraSource' = IF armed THEN filenames[1] ELSE 0
                             /\ paraDest' = IF armed THEN "root/abc/def/ref.dat" ELSE ""
                             /\ uw' = UWrite(UWriteHeader(
                                         [uw EXCEPT !.hdr = Append(@, "text/plain")], 201),
                                         body)
                             /\ ptrace' = Append(ptrace, "respond")
                             /\ UNCHANGED failures
    /\ UNCHANGED <<route, parts, pidx, reqLastMod, reqMtime, qmtime, filenames, mimetypes,
                   ondisk, tmpdir, flagParanoid, copies>>
    /\ UNCHANGED notPost

\* a deferred function that removes the directory before it copies
PostRemoveThenCopy ==
    /\ ppc = "deferred"
    /\ tmpdir' = "removed"
    /\ ondisk' = {}
    /\ IF paraSource # 0 /\ paraDest # ""
       THEN /\ copies' = Append(copies,
                    [src |-> paraSource, dst |-> paraDest, found |-> FALSE])
            /\ ptrace' = ptrace \o <<"remove", "copy">>
            /\ failures' = failures \cup {"paracopy"}
       ELSE /\ ptrace' = Append(ptrace, "remove")
            /\ UNCHANGED <<copies, failures>>
    /\ ppc' = "cleanup"
    /\ UNCHANGED <<route, parts, pidx, reqLastMod, reqMtime, qmtime, filenames, mimetypes,
                   dispatched, uploads, flagParanoid, paraSource, paraDest, uw, mimeCache>>
    /\ UNCHANGED notPost

\* the deferred function, first half: the paranoid copy
PostParanoidCopy ==
    /\ ppc = "deferred"
    /\ IF paraSource # 0 /\ paraDest # ""
       THEN /\ copies' = Append(copies,
                    [src |-> paraSource, dst |-> paraDest,
                     found |-> \E f \in ondisk : f.name = paraSource])
            /\ ptrace' = Append(ptrace, "copy")
            \* camutil.LinkOrCopy fails, which is logged
            /\ \E ok \in BOOLEAN :
                  failures' = IF ok THEN failures ELSE failures \cup {"paracopy"}
       ELSE UNCHANGED <<copies, ptrace, failures>>
    /\ ppc' = "cleanup"
    /\ UNCHANGED <<route, parts, pidx, reqLastMod, reqMtime, qmtime, filenames, mimetypes,
                   ondisk, dispatched, tmpdir, uploads, flagParanoid, paraSource,
                   paraDest, uw, mimeCache>>
    /\ UNCHANGED notPost

\* the deferred function, second half: os.RemoveAll(dn)
PostRemoveAll ==
    /\ ppc = "cleanup"
    /\ tmpdir' = "removed"
    /\ ondisk' = {}
    /\ ptrace' = Append(ptrace, "remove")
    /\ ppc' = "done"
    /\ UNCHANGED <<route, parts, pidx, reqLastMod, reqMtime, qmtime, filenames, mimetypes,
                   dispatched, uploads, flagParanoid, paraSource, paraDest, copies, uw,
                   mimeCache, failures>>
    /\ UNCHANGED notPost

NextPost ==
    \/ PostTempDir
    \/ PostReaderFail
    \/ PostReaderOk
    \/ SaveMultipartPart
    \/ SaveMultipartEnd
    \/ SaveDirect
    \/ PostDispatch
    \/ PostParanoidCopy
    \/ PostRemoveAll

SpecPost == InitPost /\ [][NextPost]_vars

(***************************************************************************)
(* Properties of the smart fetch engine.                                   *)
(***************************************************************************)
\* the static-set s got as far as expanding its members
Expanded(s) == pool[s] > 0

\* positions in StaticSetMembers of the members of s whose fetch has failed
FailedMembers(s) ==
    {i \in 1..NumMembers(s) :
        st[Members(s)[i]] = "returned" /\ res[Members(s)[i]] # 0}

Lowest(S) == CHOOSE i \in S : \A j \in S : i <= j

\* C1: when the expansion of a static-set has returned, every member's fetch
\* has reported: none is still running or waiting in the work queue.
C1_ReturnWaitsForAllMembers ==
    \A s \in Sets :
        (st[s] = "returned" /\ Expanded(s)) =>
            \A i \in 1..NumMembers(s) : st[Members(s)[i]] = "returned"

\* C2: the result of an expanded static-set is the error of the lowest-indexed
\* member whose fetch failed, and nil exactly when no member's fetch failed.
C2_FirstErrorInSubmissionOrder ==
    \A s \in Sets :
        (st[s] = "returned" /\ Expanded(s)) =>
            IF FailedMembers(s) = {}
            THEN res[s] = 0
            ELSE res[s] = res[Members(s)[Lowest(FailedMembers(s))]]

\* a static-set has returned the error of its first failed member although a
\* later member has failed too
C2_Witness ==
    \E s \in Sets :
        /\ st[s] = "returned"
        /\ Cardinality(FailedMembers(s)) >= 2
        /\ res[s] = res[Members(s)[Lowest(FailedMembers(s))]]
        /\ \E i \in FailedMembers(s) : res[Members(s)[i]] # res[s]

\* C3 as claimed: while the top-level call runs, at most numWorkers member
\* fetches execute over the whole tree.
C3_AtMostTenOverTheTree ==
    st[1] # "returned" =>
        Cardinality({n \in MemberNodes : Executing(n)}) <= numWorkers

\* C3 as amended: of each static-set, at most numWorkers member fetches
\* execute at any moment, whatever the number of its members.
C3_AtMostTenPerSet ==
    \A s \in Sets : Busy(s) <= numWorkers

\* all workers of a static-set are fetching and a further member waits
C3_Witness ==
    \E s \in Sets : Busy(s) = numWorkers /\ qh[s] < si[s]

\* the tree holds directory, static-set and file blobs only
Composite == \A n \in Nodes : tree[n].type \in {"directory", "static-set", "file"}

\* the target path of file blob f holds the content of the blob
OnDisk(f) ==
    disk[f] \in {"written", "kept_same_size", "rewrote_same_size", "rewrote_other_size"}

\* C4: the top-level call on a composite tree returns nil only if every leaf
\* file was written and every directory and set resolved without error; if
\* the fetch of a leaf has failed it returns an error.
C4_NilOnlyIfAllLeavesWritten ==
    (Composite /\ st[1] = "returned") =>
        /\ res[1] = 0 =>
               /\ \A f \in Files : OnDisk(f)
               /\ \A n \in Nodes : st[n] = "returned" /\ res[n] = 0
        /\ (\E f \in Files : st[f] = "returned" /\ res[f] # 0) => res[1] # 0

(***************************************************************************)
(* Properties of the GET path.                                             *)
(***************************************************************************)
\* the handler has returned after serving through a respWriter
ServedThroughRespWriter == gpc = "done" /\ served # "none"

\* io.Copy returned an error
CopyFailed == \E i \in 1..Len(uw.calls) : uw.calls[i] = 500

\* the byte string the blob reader delivered
Original == [i \in 1..Len(stream) |-> i]

\* C5: for a response served through respWriter with at least one Write,
\* WriteHeader is called on the underlying writer exactly once, whatever the
\* outcome of the copy.
C5_ExactlyOneWriteHeader ==
    (ServedThroughRespWriter /\ nread >= 1) => Len(uw.calls) = 1

\* C6: a byte string shorter than 1024 bytes written in any number of Writes
\* to a respWriter with no known mime type and then closed reaches the
\* underlying writer unchanged, with at most one WriteHeader call.
C6_ShortStreamFlushedVerbatim ==
    (/\ ServedThroughRespWriter
     /\ ~CopyFailed
     /\ rw.okMime \in {"", "application/octet-stream"}
     /\ NumBytes(Original) < sniffLen) =>
        /\ uw.body = Original
        /\ Len(uw.calls) <= 1

\* two Writes of a short stream were buffered and flushed by Close
C6_Witness ==
    /\ ServedThroughRespWriter
    /\ ~CopyFailed
    /\ rw.okMime = ""
    /\ Len(stream) >= 2
    /\ NumBytes(Original) < sniffLen
    /\ rw.buf = Original
    /\ uw.body = Original

\* a GET answered 200 with a body
Answered200 == ServedThroughRespWriter /\ ~CopyFailed /\ nread >= 1 /\ uw.status = 200

FromMtime(m) ==
    IF m = Empty THEN ZeroTime
    ELSE IF m.len >= mtimeLen THEN (IF ParsesAsTime(m) THEN Unix(m.at) ELSE ZeroTime)
    ELSE IF ParsesAsInt(m) THEN Unix(m.at)
    ELSE ZeroTime

\* C8: parseLastModified returns the time of the Last-Modified header whenever
\* the header parses, whatever the mtime string is; the mtime string decides
\* only when the header is absent or does not parse; the zero time results
\* when no source parses.
C8_HeaderWins ==
    tpc = "done" =>
        IF ParsesAsTime(lastModHeader)
        THEN lastmod = Unix(lastModHeader.at)
        ELSE lastmod = FromMtime(mtimeHeader)

(***************************************************************************)
(* Properties of the POST path.                                            *)
(***************************************************************************)
\* the handler has returned from a request whose body was parsed without a
\* reported error and gave no file
AnsweredNoFiles == ppc = "done" /\ dispatched /\ filenames = <<>>

\* C9 as claimed: a POST whose body gives zero files is answered 500, and
\* the upload primitive is not invoked.
C9_NoFilesIs500 ==
    AnsweredNoFiles => (uw.status = 500 /\ uploads = <<>>)

\* C9 as amended: a POST whose body gives zero files is answered 400, and
\* the upload primitive is not invoked.
C9_NoFilesIs400 ==
    AnsweredNoFiles => (uw.status = 400 /\ uploads = <<>>)

\* a multipart body of parts without a file was read to its end and answered
C9_Witness ==
    /\ AnsweredNoFiles
    /\ route = "multipart"
    /\ Len(parts) >= 1
    /\ pidx = Len(parts)
    /\ uw.status = 400

\* C10: once the temporary directory of a POST exists, it is removed by the
\* time the handler returns, on every exit path.
C10_TempDirRemoved ==
    ppc = "done" => tmpdir # "exists"

\* the handler returned after a failed upload, the directory removed
C10_Witness ==
    /\ ppc = "done"
    /\ tmpdir = "removed"
    /\ uploads # <<>>
    /\ uw.status = 500

\* --------------------------------------------------------------------------
\* Properties of the best-effort steps of a POST

\* the body of a 201 answer: the content reference, then the permanode
Created == uw.status = 201 /\ Head(uw.body) \in {10, 11}

\* the steps that are documented as best effort
BestEffort == {"chtimes", "paracopy"}

\* C11: a failure to apply the resolved mtime to a temp file (multipart and
\* direct alike) and a failure of the paranoid copy never change the status
\* or the body of the answer: it is the answer of a request on which every
\* step succeeded (201 with the reference, or 400 when there is no file).
C11_BestEffortFailuresAreSilent ==
    (ppc = "done" /\ failures # {} /\ failures \subseteq BestEffort)
        => IF filenames = <<>> THEN uw.status = 400 ELSE Created

\* C12: when creating or writing a temp file fails while the body is parsed
\* (multipart or direct), the request is answered 400 or 500 and the upload
\* primitive is never invoked.
C12_SaveFailureAborts ==
    (ppc = "done" /\ failures \cap {"create", "copy"} # {})
        => (uw.status \in {400, 500} /\ uploads = <<>>)

\* --------------------------------------------------------------------------
\* Properties of the file case of smartFetch

\* a file was found at the target path of f, of the size of the blob or not
FoundSameSize(f) == disk[f] \in {"kept_same_size", "rewrote_same_size"}

\* smartFetch returned without creating the target file of f
Skipped(f) == disk[f] \in {"kept_same_size", "kept_other_size"}

\* smartFetch created the target file of f and copied the whole content
CreatedAndCopied(f) ==
    disk[f] \in {"written", "rewrote_same_size", "rewrote_other_size"}

\* C13: when a file blob is resolved and a file of the same size exists at
\* the target path, nothing is written and the call returns success; in
\* every other case that returns success the file was created and copied.
C13_SkipsExactlySameSize ==
    \A f \in Files :
        (st[f] = "returned" /\ res[f] = 0) =>
            IF FoundSameSize(f) THEN Skipped(f) ELSE CreatedAndCopied(f)

\* --------------------------------------------------------------------------
\* Properties of the multipart parts

\* the last mtime part before part i, 0 if there is none
PrecedingMtime(i) ==
    LET js == {j \in 1..(i - 1) : parts[j].kind = "mtime"}
    IN  IF js = {} THEN 0 ELSE CHOOSE j \in js : \A k \in js : k <= j

\* C14: after an mtime part carrying a 23-byte time value V, every file part
\* that follows and has no parseable Last-Modified header of its own gets
\* the modification time parsed from V.
C14_InlineMtimeApplies ==
    (route = "multipart" /\ failures = {}) =>
        \A f \in ondisk :
            LET j == PrecedingMtime(f.name)
            IN  (j # 0 /\ ~ParsesAsTime(parts[f.name].lm))
                    => f.mtime = Unix(parts[j].value.at)

\* --------------------------------------------------------------------------
\* Properties of the dispatch of a POST

\* C15: after the parsing of a POST succeeded the upload primitive is invoked
\* exactly once, with the path of the only file when one file was saved and
\* with the temporary directory when more were; with no file, and on a
\* request that was refused before the dispatch, it is not invoked.
C15_UploadOnceByFileCount ==
    /\ Len(uploads) <= 1
    /\ dispatched =>
           uploads = IF Len(filenames) = 0 THEN <<>>
                     ELSE IF Len(filenames) = 1
                          THEN <<[name |-> filenames[1], kind |-> "file"]>>
                          ELSE <<[name |-> 0, kind |-> "dir"]>>
    /\ ~dispatched => uploads = <<>>

\* a multipart POST that saved two files was dispatched and has returned
C15_Witness ==
    /\ ppc = "done"
    /\ dispatched
    /\ Len(filenames) = 2
    /\ Len(uploads) = 1
    /\ uploads[1].kind = "dir"
    /\ uw.status = 201

\* C17: the paranoid copy is performed only if a backup root is configured,
\* exactly one file was saved and its upload succeeded; it is performed at
\* most once per request.
C17_ParanoidOnlyAfterSingleUpload ==
    /\ Len(copies) <= 1
    /\ copies # <<>> =>
           /\ flagParanoid
           /\ Len(filenames) = 1
           /\ uploads = <<[name |-> filenames[1], kind |-> "file"]>>
           /\ "upload" \notin failures
           /\ Created
           /\ copies[1].src = filenames[1]

\* a POST of one file with a backup root has returned, the copy attempted
C17_Witness ==
    /\ ppc = "done"
    /\ flagParanoid
    /\ Len(copies) = 1
    /\ uw.status = 201

(***************************************************************************)
(* The cache of downloaders: concurrent calls of camutil.NewDownloader.    *)
(***************************************************************************)
\* NewClient: if server == "" { server = "localhost:3179" }
ClientKey(server) == IF server = "" THEN "localhost:3179" ELSE server

InitDown ==
    /\ FetchIdle
    /\ GetIdle
    /\ HttpIdle
    /\ TimeIdle
    /\ PostIdle
    /\ DownIdle
    /\ RefIdle

\* a goroutine calls NewDownloader(a)
DownCall(p, a) ==
    /\ callers[p].pc = "idle"
    /\ ncalls < MaxCalls
    /\ ncalls' = ncalls + 1
    /\ callers' = [callers EXCEPT ![p] = [pc |-> "lock", server |-> a, down |-> 0]]
    /\ UNCHANGED <<cachedDownloaderMtx, cachedClientMtx, cachedDownloader, cachedClient,
                   allocated, returned, stored>>
    /\ UNCHANGED notDown

\* the call goes on without waiting for the mutex
DownLockNoWait(p) ==
    /\ callers[p].pc = "lock"
    /\ cachedDownloaderMtx' = p
    /\ callers' = [callers EXCEPT ![p].pc = "lookup"]
    /\ UNCHANGED <<ncalls, cachedClientMtx, cachedDownloader, cachedClient, allocated,
                   returned, stored>>
    /\ UNCHANGED notDown

\* cachedDownloaderMtx.Lock()
DownLock(p) ==
    /\ callers[p].pc = "lock"
    /\ cachedDownloaderMtx = 0
    /\ cachedDownloaderMtx' = p
    /\ callers' = [callers EXCEPT ![p].pc = "lookup"]
    /\ UNCHANGED <<ncalls, cachedClientMtx, cachedDownloader, cachedClient, allocated,
                   returned, stored>>
    /\ UNCHANGED notDown

\* down, ok := cachedDownloader[server]; if ok return it, else new(Downloader)
DownLookup(p) ==
    /\ callers[p].pc = "lookup"
    /\ LET a == callers[p].server
       IN  IF cachedDownloader[a] # 0
           THEN /\ callers' = [callers EXCEPT ![p].pc = "unlock",
                                              ![p].down = cachedDownloader[a]]
                /\ UNCHANGED allocated
           ELSE /\ allocated' = allocated + 1
                /\ callers' = [callers EXCEPT ![p].pc = "client",
                                              ![p].down = allocated + 1]
    /\ UNCHANGED <<ncalls, cachedDownloaderMtx, cachedClientMtx, cachedDownloader,
                   cachedClient, returned, stored>>
    /\ UNCHANGED notDown

\* NewClient: cachedClientMtx.Lock()
ClientLock(p) ==
    /\ callers[p].pc = "client"
    /\ cachedClientMtx = 0
    /\ cachedClientMtx' = p
    /\ callers' = [callers EXCEPT ![p].pc = "setup"]
    /\ UNCHANGED <<ncalls, cachedDownloaderMtx, cachedDownloader, cachedClient, allocated,
                   returned, stored>>
    /\ UNCHANGED notDown

\* NewClient: the cached client, or client.New and SetupAuth, which may fail;
\* the deferred cachedClientMtx.Unlock()
ClientSetup(p) ==
    /\ callers[p].pc = "setup"
    /\ cachedClientMtx' = 0
    /\ LET k == ClientKey(callers[p].server)
       IN  IF k \in cachedClient
           THEN /\ callers' = [callers EXCEPT ![p].pc = "diskcache"]
                /\ UNCHANGED cachedClient
           ELSE \/ \* SetupAuth fails: NewDownloader returns nil, err
                   /\ callers' = [callers EXCEPT ![p].pc = "unlock", ![p].down = 0]
                   /\ UNCHANGED cachedClient
                \/ /\ cachedClient' = cachedClient \cup {k}
                   /\ callers' = [callers EXCEPT ![p].pc = "diskcache"]
    /\ UNCHANGED <<ncalls, cachedDownloaderMtx, cachedDownloader, allocated, returned,
                   stored>>
    /\ UNCHANGED notDown

\* cacher.NewDiskCache(down.cl), which may fail: return nil, err
DownDiskCache(p) ==
    /\ callers[p].pc = "diskcache"
    /\ \/ callers' = [callers EXCEPT ![p].pc = "unlock", ![p].down = 0]
       \/ callers' = [callers EXCEPT ![p].pc = "store"]
    /\ UNCHANGED <<ncalls, cachedDownloaderMtx, cachedClientMtx, cachedDownloader,
                   cachedClient, allocated, returned, stored>>
    /\ UNCHANGED notDown

\* cachedDownloader[server] = down
DownStore(p) ==
    /\ callers[p].pc = "store"
    /\ LET a == callers[p].server
       IN  /\ cachedDownloader' = [cachedDownloader EXCEPT ![a] = callers[p].down]
           /\ stored' = [stored EXCEPT ![a] = Append(@, callers[p].down)]
    /\ callers' = [callers EXCEPT ![p].pc = "unlock"]
    /\ UNCHANGED <<ncalls, cachedDownloaderMtx, cachedClientMtx, cachedClient, allocated,
                   returned>>
    /\ UNCHANGED notDown

\* the deferred cachedDownloaderMtx.Unlock() and the return
DownReturn(p) ==
    /\ callers[p].pc = "unlock"
    /\ cachedDownloaderMtx' = 0
    /\ returned' = IF callers[p].down # 0
                   THEN returned \cup {[proc |-> p, server |-> callers[p].server,
                                        down |-> callers[p].down]}
                   ELSE returned
    /\ callers' = [callers EXCEPT ![p].pc = "idle"]
    /\ UNCHANGED <<ncalls, cachedClientMtx, cachedDownloader, cachedClient, allocated,
                   stored>>
    /\ UNCHANGED notDown

NextDown ==
    \/ \E p \in Callers, a \in Servers : DownCall(p, a)
    \/ \E p \in Callers : DownLock(p)
    \/ \E p \in Callers : DownLookup(p)
    \/ \E p \in Callers : ClientLock(p)
    \/ \E p \in Callers : ClientSetup(p)
    \/ \E p \in Callers : DownDiskCache(p)
    \/ \E p \in Callers : DownStore(p)
    \/ \E p \in Callers : DownReturn(p)

SpecDown == InitDown /\ [][NextDown]_vars

\* C16: for any interleaving of concurrent NewDownloader calls, at most one
\* Downloader is ever stored in the cache per server address, the cached
\* entry is never replaced or removed, and every successful call for the
\* address returns that one Downloader.
C16_OneDownloaderPerServer ==
    \A a \in Servers :
        /\ Len(stored[a]) <= 1
        /\ cachedDownloader[a] = IF stored[a] = <<>> THEN 0 ELSE stored[a][1]
        /\ \A r \in returned :
               r.server = a => (stored[a] # <<>> /\ r.down = stored[a][1])

\* two goroutines got the same Downloader for one server, after a call for
\* that server had failed and had left nothing in the cache
C16_Witness ==
    \E r1, r2 \in returned :
        /\ r1.proc # r2.proc
        /\ r1.server = r2.server
        /\ r1.down = r2.down
        /\ r1.down > 1

(***************************************************************************)
(* Blob references: the canonical text, the base64 short form and the      *)
(* paranoid path.  A text is a sequence of one-character strings.          *)
(***************************************************************************)
\* the alphabet of base64.URLEncoding, its padding and the hex digits
base64Alphabet ==
    <<"A", "B", "C", "D", "E", "F", "G", "H", "I", "J", "K", "L", "M",
      "N", "O", "P", "Q", "R", "S", "T", "U", "V", "W", "X", "Y", "Z",
      "a", "b", "c", "d", "e", "f", "g", "h", "i", "j", "k", "l", "m",
      "n", "o", "p", "q", "r", "s", "t", "u", "v", "w", "x", "y", "z",
      "0", "1", "2", "3", "4", "5", "6", "7", "8", "9", "-", "_">>
hexDigits ==
    <<"0", "1", "2", "3", "4", "5", "6", "7", "8", "9", "a", "b", "c", "d", "e", "f">>

\* the value of character c in an alphabet, -1 if it is not in it
ValueIn(alphabet, c) ==
    IF \E i \in 1..Len(alphabet) : alphabet[i] = c
    THEN (CHOOSE i \in 1..Len(alphabet) : alphabet[i] = c) - 1
    ELSE 0 - 1

\* bytes.IndexByte(t, c), counted from 0; -1 if c is not in t
IndexByte(t, c) ==
    IF \E i \in 1..Len(t) : t[i] = c
    THEN (CHOOSE i \in 1..Len(t) : t[i] = c /\ \A j \in 1..(i - 1) : t[j] # c) - 1
    ELSE 0 - 1

\* bytes.ToLower on one character
ToLower(c) ==
    LET v == ValueIn(base64Alphabet, c)
    IN  IF v >= 0 /\ v < 26 THEN base64Alphabet[v + 27] ELSE c

\* n zero bytes
Zeroes(n) == [k \in 1..n |-> "NUL"]

\* hex.Encode with the two digits of every byte exchanged
hexEncodeLowFirst(b) ==
    [j \in 1..(2 * Len(b)) |->
        hexDigits[(IF j % 2 = 1 THEN b[(j + 1) \div 2] % 16 ELSE b[j \div 2] \div 16) + 1]]

\* hex.Encode: two lower-case digits per byte, the high one first
hexEncode(b) ==
    [j \in 1..(2 * Len(b)) |->
        hexDigits[(IF j % 2 = 1 THEN b[(j + 1) \div 2] \div 16 ELSE b[j \div 2] % 16) + 1]]

\* the bytes written by an even number of lower-case hex digits
hexDecode(t) ==
    [k \in 1..(Len(t) \div 2) |->
        16 * ValueIn(hexDigits, t[2 * k - 1]) + ValueIn(hexDigits, t[2 * k])]

\* base64.URLEncoding.EncodeToString: 4 characters per 3 bytes, padded with =
base64Encode(b) ==
    LET n == Len(b)
        at(k) == IF k <= n THEN b[k] ELSE 0
    IN  [j \in 1..(4 * ((n + 2) \div 3)) |->
            LET q == (j - 1) \div 4
                r == (j - 1) % 4
                b1 == at(3 * q + 1)
                b2 == at(3 * q + 2)
                b3 == at(3 * q + 3)
            IN  IF r = 0 THEN base64Alphabet[(b1 \div 4) + 1]
                ELSE IF r = 1 THEN base64Alphabet[((b1 % 4) * 16 + b2 \div 16) + 1]
                ELSE IF r = 2
                     THEN (IF 3 * q + 2 > n THEN "="
                           ELSE base64Alphabet[((b2 % 16) * 4 + b3 \div 64) + 1])
                     ELSE (IF 3 * q + 3 > n THEN "=" ELSE base64Alphabet[(b3 % 64) + 1])]

\* base64.URLEncoding.Decode: [ok, bytes]; the text is a whole number of
\* groups of 4 characters of the alphabet, the last one padded with = or ==
base64Decode(t) ==
    LET n == Len(t)
        pad == IF n >= 2 /\ t[n] = "=" /\ t[n - 1] = "=" THEN 2
               ELSE IF n >= 1 /\ t[n] = "=" THEN 1 ELSE 0
        v(j) == IF j > n - pad THEN 0 ELSE ValueIn(base64Alphabet, t[j])
        wellFormed ==
            /\ n % 4 = 0
            /\ \A j \in 1..(n - pad) : ValueIn(base64Alphabet, t[j]) >= 0
    IN  IF ~wellFormed THEN [ok |-> FALSE, bytes |-> <<>>]
        ELSE [ok |-> TRUE,
              bytes |-> [k \in 1..(3 * (n \div 4) - pad) |->
                  LET q == (k - 1) \div 3
                      r == (k - 1) % 3
                  IN  IF r = 0 THEN v(4 * q + 1) * 4 + v(4 * q + 2) \div 16
                      ELSE IF r = 1 THEN (v(4 * q + 2) % 16) * 16 + v(4 * q + 3) \div 4
                      ELSE (v(4 * q + 3) % 4) * 64 + v(4 * q + 4)]]

\* the name of the hash of a canonical reference, and its digest size
sha1Name == <<"s", "h", "a", "1">>
sha1Size == 20

\* blob.Parse: "sha1-" and the 40 lower-case hex digits of the digest
blobParse(t) ==
    LET i == IndexByte(t, "-")
        hex == SubSeq(t, i + 2, Len(t))
    IN  IF /\ i >= 0
           /\ SubSeq(t, 1, i) = sha1Name
           /\ Len(hex) = 2 * sha1Size
           /\ \A j \in 1..Len(hex) : ValueIn(hexDigits, hex[j]) >= 0
        THEN [valid |-> TRUE, algo |-> "sha1", digest |-> hexDecode(hex)]
        ELSE ZeroRef

\* blob.Ref.String
RefString(br) == IF br.valid THEN sha1Name \o <<"-">> \o hexEncode(br.digest) ELSE <<>>

\* camutil.RefToBase64: the hash name, "-", the base64 of the digest bytes
RefToBase64(br) == sha1Name \o <<"-">> \o base64Encode(br.digest)

\* the capacity of the slice made by []byte(arg[:i]) for a text of n bytes:
\* n, or n rounded up to the allocator's size class
sizeClasses == <<8, 16, 24, 32, 48, 64, 80, 96, 112, 128>>
Capacities(n) ==
    {n} \cup {sizeClasses[k] : k \in {k \in 1..Len(sizeClasses) :
                 sizeClasses[k] >= n /\ (k = 1 \/ sizeClasses[k - 1] < n)}}

RefFailure(e) == [err |-> e, br |-> ZeroRef]

\* camutil.Base64ToRef(arg), c being the capacity of t after the conversion
Base64ToRef(arg, c) ==
    LET i0 == IF Len(arg) > 2 * refBufLen THEN 2 * refBufLen ELSE Len(arg)
        t0 == SubSeq(arg, 1, i0)
        i == IndexByte(t0, "-")
        dec == base64Decode(SubSeq(t0, i + 2, Len(t0)))
        b == dec.bytes
        n == Len(b)
        \* copy(t[:i], bytes.ToLower(t[:i])); t = t[:cap(t)]
        t1 == [k \in 1..Len(t0) |-> IF k <= i THEN ToLower(t0[k]) ELSE t0[k]]
        t2 == t1 \o Zeroes(c - Len(t1))
        \* n = 2*len(b) - len(t) + n + 1; if n > 0 { t = append(t, ...) }
        grow == 2 * n - Len(t2) + n + 1
        t3 == IF grow > 0 THEN t2 \o Zeroes(grow) ELSE t2
        \* n = hex.Encode(t[i+1:], b); arg = string(t[:i+1+n])
        hex == hexEncode(b)
        t4 == [k \in 1..Len(t3) |->
                  IF k > i + 1 /\ k <= i + 1 + 2 * n THEN hex[k - i - 1] ELSE t3[k]]
        br == blobParse(SubSeq(t4, 1, i + 1 + 2 * n))
    IN  IF i < 0 THEN RefFailure("no -")
        ELSE IF ~dec.ok THEN RefFailure("cannot decode")
        ELSE IF n > refBufLen \/ Len(t3) - (i + 1) < 2 * n THEN RefFailure("panic")
        ELSE IF ~br.valid THEN RefFailure("cannot parse")
        ELSE [err |-> "", br |-> br]

\* filepath.Join of the non-empty elements, which are clean paths
Join(elems) ==
    LET RECURSIVE join(_)
        join(k) ==
            IF k > Len(elems) THEN <<>>
            ELSE LET rest == join(k + 1)
                 IN  IF elems[k] = <<>> THEN rest
                     ELSE IF rest = <<>> THEN elems[k]
                     ELSE elems[k] \o <<"/">> \o rest
    IN  join(1)

\* the shard directories are the digits 0..2 and 3..4 of the digest
getParanoidPathShortShard(root, br) ==
    LET txt == RefString(br)
        i == IndexByte(txt, "-")
        hsh == SubSeq(txt, i + 2, Len(txt))
    IN  IF root = <<>> \/ ~br.valid \/ i < 0 THEN <<>>
        ELSE Join(<<root, SubSeq(hsh, 1, 3), SubSeq(hsh, 4, 5),
                    txt \o <<".", "d", "a", "t">>>>)

\* getParanoidPath(br), root being the value of the paranoid flag
getParanoidPath(root, br) ==
    LET txt == RefString(br)
        i == IndexByte(txt, "-")
        hsh == SubSeq(txt, i + 2, Len(txt))
    IN  IF root = <<>> \/ ~br.valid \/ i < 0 THEN <<>>
        ELSE Join(<<root, SubSeq(hsh, 1, 3), SubSeq(hsh, 4, 6),
                    txt \o <<".", "d", "a", "t">>>>)

\* the digests tried: every byte y but one byte x
ByteSamples == {0, 1, 127, 251, 255}
Digests ==
    {[k \in 1..sha1Size |-> IF k = at THEN x ELSE y] :
        at \in 1..sha1Size, x \in ByteSamples, y \in ByteSamples}

\* the texts tried: the canonical references of the digests, and texts that
\* are not a reference
CanonicalTexts == {sha1Name \o <<"-">> \o hexEncode(d) : d \in Digests}
OtherTexts ==
    {<<>>, sha1Name, sha1Name \o <<"-">> \o hexEncode(<<1, 2, 3>>),
     <<"s", "h", "a", "1", "-", "x", "y">>}
Roots == {<<>>, <<"/", "b", "a", "k">>}

InitRef ==
    /\ FetchIdle
    /\ GetIdle
    /\ HttpIdle
    /\ TimeIdle
    /\ PostIdle
    /\ DownIdle
    /\ rpc = "parse"
    /\ refText \in CanonicalTexts \cup OtherTexts
    /\ ref = ZeroRef
    /\ shortText = <<>>
    /\ backRef = [err |-> "", br |-> ZeroRef]
    /\ paranoidRoot \in Roots
    /\ paranoidPath = <<>>

\* br, ok := blob.Parse(text)
RefParse ==
    /\ rpc = "parse"
    /\ ref' = blobParse(refText)
    /\ rpc' = "parsed"
    /\ UNCHANGED <<refText, shortText, backRef, paranoidRoot, paranoidPath>>
    /\ UNCHANGED notRef

\* shortKey := camutil.RefToBase64(content)
RefShorten ==
    /\ rpc = "parsed"
    /\ ref.valid
    /\ shortText' = RefToBase64(ref)
    /\ rpc' = "short"
    /\ UNCHANGED <<refText, ref, backRef, paranoidRoot, paranoidPath>>
    /\ UNCHANGED notRef

\* br, e = Base64ToRef(arg)
RefFromShort ==
    /\ rpc = "short"
    /\ \E c \in Capacities(Len(shortText)) : backRef' = Base64ToRef(shortText, c)
    /\ rpc' = "back"
    /\ UNCHANGED <<refText, ref, shortText, paranoidRoot, paranoidPath>>
    /\ UNCHANGED notRef

\* paraDest = getParanoidPath(content)
RefParanoidPath ==
    /\ rpc = "parsed"
    /\ paranoidPath' = getParanoidPath(paranoidRoot, ref)
    /\ rpc' = "path"
    /\ UNCHANGED <<refText, ref, shortText, backRef, paranoidRoot>>
    /\ UNCHANGED notRef

NextRef ==
    \/ RefParse
    \/ RefShorten
    \/ RefFromShort
    \/ RefParanoidPath

SpecRef == InitRef /\ [][NextRef]_vars

\* C18: for every valid canonical reference R, converting parse(R) to the
\* short form and back gives parse(R) again, without an error.
C18_ShortFormRoundTrip ==
    rpc = "back" => (backRef.err = "" /\ backRef.br = ref /\ ref = blobParse(refText))

\* a reference whose short form has a "-" in its base64 part and ends with
\* the padding went through both conversions
C18_Witness ==
    /\ rpc = "back"
    /\ ref.valid
    /\ backRef.br.digest = ref.digest
    /\ shortText[Len(shortText)] = "="
    /\ \E k \in 6..Len(shortText) : shortText[k] = "-"

\* C19: with a backup root and a valid reference, getParanoidPath returns
\* root/<digest characters 0..2>/<digest characters 3..5>/<reference>.dat,
\* the digest being the text after the first "-"; with no root or with an
\* invalid reference it returns the empty path.
C19_ParanoidPathScheme ==
    rpc = "path" =>
        paranoidPath =
            IF paranoidRoot = <<>> \/ ~ref.valid THEN <<>>
            ELSE LET dash == CHOOSE k \in 1..Len(refText) :
                                 refText[k] = "-" /\ \A j \in 1..(k - 1) : refText[j] # "-"
                     digest == [k \in 1..(Len(refText) - dash) |-> refText[dash + k]]
                 IN  paranoidRoot \o <<"/">> \o <<digest[1], digest[2], digest[3]>>
                         \o <<"/">> \o <<digest[4], digest[5], digest[6]>>
                         \o <<"/">> \o refText \o <<".", "d", "a", "t">>

\* the path of a valid reference under a root was computed
C19_Witness ==
    /\ rpc = "path"
    /\ ref.valid
    /\ paranoidRoot # <<>>
    /\ Len(paranoidPath) = Len(paranoidRoot) + 9 + Len(refText) + 4
    /\ paranoidPath[Len(paranoidRoot) + 2] # paranoidPath[Len(paranoidRoot) + 6]

\* --------------------------------------------------------------------------
\* Properties of the respWriter

\* the respWriter has no known mime type and has not written the header
Sniffing ==
    /\ gpc = "copy"
    /\ ~rw.headerWritten
    /\ rw.okMime \in {"", "application/octet-stream"}

\* what a step of the respWriter may do in each of its two states
RespWriterStep ==
    LET p == <<nread + 1>>
    IN  \* buffering: nothing has reached the underlying writer, and the
        \* buffer holds less than 1024 bytes
        /\ Sniffing =>
               /\ uw.calls = <<>> /\ uw.hdr = <<>> /\ uw.body = <<>>
               /\ NumBytes(rw.buf) < sniffLen
        \* the only way out is the Write that brings the buffer to 1024 bytes
        \* or more, which passes the whole buffer on and empties it
        /\ (Sniffing /\ rw'.headerWritten) =>
               /\ nread' = nread + 1
               /\ NumBytes(rw.buf \o p) >= sniffLen
               /\ rw'.buf = <<>>
               /\ uw'.calls = <<200>>
               /\ uw'.body = rw.buf \o p
        \* a Write that leaves it buffering passes nothing on
        /\ (Sniffing /\ nread' = nread + 1 /\ ~rw'.headerWritten) =>
               /\ rw'.buf = rw.buf \o p
               /\ uw' = uw
        \* passthrough: never back to buffering, every Write goes straight on
        /\ rw.headerWritten =>
               /\ rw'.headerWritten
               /\ rw'.buf = <<>>
               /\ nread' = nread + 1 => uw'.body = uw.body \o p

\* C20: a respWriter with no known mime type is a two-state machine: while
\* buffering, no body byte and no header reaches the underlying writer until
\* the buffer holds at least 1024 bytes or Close is called; it goes over to
\* passthrough at most once, at the Write that brings the buffer to 1024
\* bytes or more; after that the buffer is empty and every later Write goes
\* straight to the underlying writer.
C20_TwoStateRespWriter == [][RespWriterStep]_vars

\* a stream whose first chunk is short was sniffed at a later chunk, and a
\* chunk was written after that
C20_Witness ==
    /\ gpc = "copy"
    /\ rw.headerWritten
    /\ rw.okMime = ""
    /\ rw.buf = <<>>
    /\ nread = 3
    /\ stream[1] + stream[2] = sniffLen
    /\ uw.body = <<1, 2, 3>>

\* --------------------------------------------------------------------------
\* Properties of the Mime Cache in a POST

\* what a step of a POST may do to the Mime Cache
MimeCacheStep ==
    LET known == Len(filenames) = 1 /\ mimetypes[1] # ""
    IN  \* the cache changes only at the answer of a successful upload of one
        \* file with a mime type, and only under the key of its reference
        /\ mimeCache' # mimeCache =>
               /\ ppc = "dispatch"
               /\ Created'
               /\ "upload" \notin failures'
               /\ known
               /\ mimeCache' = [mimeCache EXCEPT !["ref"] = mimetypes[1]]
        \* and such an upload does store the type
        /\ (ppc = "dispatch" /\ Created' /\ known) => mimeCache'["ref"] = mimetypes[1]

\* C21: a POST updates the Mime Cache, under the key of the returned content
\* reference, exactly when the upload succeeded, exactly one file was saved
\* and its recorded mime type is not empty; uploads of several files, failed
\* uploads and files with an empty type leave the Mime Cache unchanged.
C21_MimeCacheUpdatedExactlyWhen == [][MimeCacheStep]_vars

\* a POST of one file of type text/plain was answered 201, the type cached
C21_Witness ==
    /\ ppc = "done"
    /\ uw.status = 201
    /\ Len(filenames) = 1
    /\ mimetypes = <<"text/plain">>
    /\ mimeCache["ref"] = "text/plain"

\* --------------------------------------------------------------------------
\* Termination of a static-set expansion

\* the send "workc <- work{mref, errc}" of the next member does not block:
\* workc, of capacity len(members), is not full
CanSubmit(s) == si[s] - qh[s] < NumMembers(s)

\* every member of s was taken from workc and has reported its result, and
\* the 10 workers of s have left their range loop
WorkersDone(s) ==
    /\ st[s] = "returned"
    /\ si[s] = NumMembers(s)
    /\ qh[s] = si[s]
    /\ \A i \in 1..NumMembers(s) : st[Members(s)[i]] = "returned"
    /\ pool[s] = numWorkers
    /\ exited[s] = pool[s]

\* C22: a static-set expansion never deadlocks and leaks no worker: the
\* submission of the members never blocks, and the call returns, after which
\* (with success or with an early error) the workers of every expansion
\* drain the members still queued and exit, for any number of members.
C22_NoDeadlockNoLeak ==
    /\ [](\A s \in Sets : (st[s] = "inset" /\ si[s] < NumMembers(s)) => CanSubmit(s))
    /\ <>[](st[1] = "returned" /\ \A s \in Sets : pool[s] > 0 => WorkersDone(s))

\* an expansion returned the error of its first member, and its workers
\* have fetched the members after it and have all left
C22_Witness ==
    \E s \in Sets :
        /\ NumMembers(s) >= 3
        /\ res[s] = Members(s)[1]
        /\ WorkersDone(s)
        /\ \A i \in 2..NumMembers(s) : res[Members(s)[i]] = 0 /\ OnDisk(Members(s)[i])

\* --------------------------------------------------------------------------
\* The order of the final steps of a POST

\* the place of a final step in the order
StepRank(e) == IF e = "respond" THEN 1 ELSE IF e = "copy" THEN 2 ELSE 3

\* C23: the final steps of a POST come in a fixed order: the 201 answer is
\* written first, then the paranoid copy (when armed) reads its source, and
\* only then is the temporary directory removed; the copy never reads a
\* source that was already deleted.
C23_RespondCopyRemove ==
    /\ \A i \in 1..(Len(ptrace) - 1) : StepRank(ptrace[i]) < StepRank(ptrace[i + 1])
    /\ \A i \in 1..Len(ptrace) :
           /\ ptrace[i] = "respond" => Created
           /\ ptrace[i] = "copy" => (i = 2 /\ ptrace[1] = "respond" /\ Len(copies) = 1)
           /\ ptrace[i] = "remove" => tmpdir = "removed"
    /\ \A k \in 1..Len(copies) : copies[k].found
    /\ (ppc = "done" /\ paraSource # 0 /\ paraDest # "") =>
           ptrace = <<"respond", "copy", "remove">>

\* an armed POST has returned: answered, copied from the file still in the
\* temporary directory, and the directory removed
C23_Witness ==
    /\ ppc = "done"
    /\ ptrace = <<"respond", "copy", "remove">>
    /\ copies[1].found
    /\ copies[1].src = filenames[1]
    /\ ondisk = {}

====
